---- MODULE Spec2Model ----
(***************************************************************************)
(* A model of the AtlasInContext dashboard client                          *)
(* (src/frontend/static/main.js): the data loader fetchWithDecompress with *)
(* its gzip fallback and its rebuilt body stream, the sequential loads of  *)
(* loadAllData, initialize with its error screen, and the pure helpers     *)
(* that bucket and aggregate the vibe scores.                              *)
(*                                                                         *)
(* Numbers: a vibe score is an integer number of hundredths (-50 is -0.5), *)
(* an intensity (p_int, n_int) an integer number of tenths, a              *)
(* visualization value an integer number of two-hundredths (200 is 1.0).   *)
(* Bytes are integers 0..255; a chunk is a sequence of bytes, a body a     *)
(* sequence of chunks.                                                     *)
(***************************************************************************)
EXTENDS Integers, Sequences, FiniteSets, TLC

\* ------------------------------------------------------------------ bounds
MaxBodyLen == 4        \* longest response body, in bytes, of SpecFetch

\* ------------------------------------------------------- program constants
GzipMagic0 == 31       \* 0x1f
GzipMagic1 == 139      \* 0x8b

\* ------------------------------------------------------------ configuration
Hostnames == {"localhost", "127.0.0.1", "sriramsme.github.io"}

\* IS_PROD knowing localhost only.
IS_PROD_LocalhostOnly(host) == host /= "localhost"

\* Line 10.
IS_PROD(host) == host /= "localhost" /\ host /= "127.0.0.1"

CdnBase == "https://cdn.jsdelivr.net/gh/sriramsme/AtlasInContext@main/data"

dataBaseUrl(host) == IF IS_PROD(host) THEN CdnBase ELSE "/data"

\* ------------------------------------------------------------------- bytes
\* The JSON documents a data file can hold are numbered; the single byte d
\* stands for the text of document d.
DocIds == 1 .. 10

\* The bytes of the bodies of SpecFetch: the magic number and one document.
Bytes == {GzipMagic0, GzipMagic1, 1}

RECURSIVE Flatten(_)
Flatten(chunks) ==
    IF chunks = <<>> THEN <<>> ELSE Head(chunks) \o Flatten(Tail(chunks))

IsPrefix(s, t) == Len(s) <= Len(t) /\ SubSeq(t, 1, Len(s)) = s

SetMin(S) == CHOOSE x \in S : \A y \in S : x <= y

\* The chunks of b when it is cut after the positions of cuts.
RECURSIVE SplitFrom(_, _, _)
SplitFrom(b, cuts, start) ==
    IF start > Len(b) THEN <<>>
    ELSE LET later == {i \in cuts : i >= start}
             end == IF later = {} THEN Len(b) ELSE SetMin(later)
         IN  <<SubSeq(b, start, end)>> \o SplitFrom(b, cuts, end + 1)

\* Every way a stream reader can divide the bytes b into non-empty chunks.
Chunkings(b) == {SplitFrom(b, cuts, 1) : cuts \in SUBSET (1 .. Len(b) - 1)}

ByteSeqs(n) == UNION {[1 .. k -> Bytes] : k \in 0 .. n}

\* How a call ends: it returns a document (0 is null) or throws an error; an
\* `HTTP <status>` error carries the status.
NoResult == [kind |-> "none", doc |-> 0, err |-> "none", status |-> 0]
Returned(d) == [kind |-> "return", doc |-> d, err |-> "none", status |-> 0]
Thrown(err, status) == [kind |-> "throw", doc |-> 0, err |-> err, status |-> status]

\* Response.json(): the document of a JSON text, or a SyntaxError.
JsonText(d) == <<d>>
IsJsonText(b) == Len(b) = 1 /\ b[1] \in DocIds
ParseJson(b) ==
    IF IsJsonText(b) THEN Returned(b[1]) ELSE Thrown("SyntaxError", 0)

\* DecompressionStream('gzip'): a gzip file is the magic number followed by the
\* compressed text; anything else makes the stream fail.
GzipFile(d) == <<GzipMagic0, GzipMagic1, d>>
IsGzipFile(b) == Len(b) = 3 /\ b[1] = GzipMagic0 /\ b[2] = GzipMagic1 /\ b[3] \in DocIds
Gunzip(b) == JsonText(b[3])
IsGzipPrefix(b) == \E d \in DocIds : IsPrefix(b, GzipFile(d))

\* ------------------------------------------------------------- JSON values
\* A JSON object is a record, an array a sequence, null the record Null; a
\* property the object lacks reads undefined.
Null == [null |-> TRUE]
IsNull(v) == "null" \in DOMAIN v
Has(o, k) == ~IsNull(o) /\ k \in DOMAIN o

\* An array that may be null where it is read.
Array(items) == [items |-> items]

Feature1 == [id |-> "h1", properties |-> [name |-> "a"], geometry |-> "g1"]
Feature2 == [id |-> "h2", properties |-> [h3_index |-> "stale", name |-> "b"], geometry |-> "g2"]
Feature3 == [id |-> "h3", geometry |-> "g3"]

GridMeta == [resolution |-> 2]

Cell(vibe, p_int, n_int) == [vibe |-> vibe, p_int |-> p_int, n_int |-> n_int]
CellCounted(vibe, p_int, n_int, count, noise_count, progress_count) ==
    [vibe |-> vibe, p_int |-> p_int, n_int |-> n_int, count |-> count,
     noise_count |-> noise_count, progress_count |-> progress_count]

Pulse1 == [progress_signal |-> 40, noise_signal |-> 25, humanity_ratio |-> 160]
Pulse2 == [progress_signal |-> 10, noise_signal |-> 30, humanity_ratio |-> 33]
PulsePartial == [humanity_ratio |-> 50]

\* The documents the data files can hold, by number (0 is the JSON text null).
Doc(d) ==
    CASE d = 1 -> [available_files |-> [core_grid |-> <<"core", "core_grid.json">>]]
      [] d = 2 -> [available_files |-> [core_grid |-> <<"core_grid.json">>]]
      [] d = 3 -> [version |-> "1"]
      [] d = 4 -> [features |-> <<Feature1, Feature2>>, metadata |-> GridMeta]
      [] d = 5 -> [features |-> <<Feature3, Feature1>>, metadata |-> GridMeta]
      [] d = 6 -> [features |-> <<Feature1>>]
      [] d = 7 -> [cells |-> [h \in {"h1", "h2"} |->
                                 IF h = "h1" THEN CellCounted(45, 30, 5, 4, 1, 3)
                                 ELSE Cell(-60, 0, 120)],
                   pulse |-> Pulse1, insights |-> Array(<<"story1", "story2">>)]
      [] d = 8 -> [cells |-> [h \in {"h1"} |-> CellCounted(10, 10, 10, 2, 1, 1)],
                   insights |-> Array(<<>>)]
      [] d = 9 -> [pulse |-> Pulse2, insights |-> Array(<<"story3">>)]
      [] d = 10 -> [cells |-> [h \in {"h2"} |-> CellCounted(0, 5, 5, 1, 0, 0)],
                    pulse |-> PulsePartial, insights |-> Array(<<"story3">>)]
      [] OTHER -> Null

\* ------------------------------------------------------------------- state
VARIABLES
    hostname,   \* window.location.hostname
    useGzip,    \* CONFIG.useGzip
    fetches,    \* the calls of fetchWithDecompress, by call id
    state,      \* the state object of lines 55-67
    ui,         \* the elements of the page the code writes to
    map,        \* the MapLibre map: its sources, layers and fill colours
    pc,         \* where initialize is
    container,  \* the #map element: "missing", "unsized" or "sized"
    retryCount, \* initializeMap: the polls of the container's size so far
    mapRetry,   \* window._mapRetry
    probe,      \* the last direct call of a pure helper and its result
    lastStarted \* the call of loadVibeScores that was started last

vars == <<hostname, useGzip, fetches, state, ui, map, pc, container, retryCount,
          mapRetry, probe, lastStarted>>

config == <<hostname, useGzip>>
app == <<state, ui, map, pc, container, retryCount, mapRetry, probe, lastStarted>>

RefreshIds == {"refresh1", "refresh2"}
FetchIds == {"probe", "metadata", "grid", "vibe"} \cup RefreshIds

NoUrl == [base |-> "none", path |-> <<>>]

\* A response of fetch(): its ok flag, its status, the chunks its body stream
\* will deliver and how the stream ends after them (done, or a failed read).
NoResponse == [arrived |-> FALSE, ok |-> FALSE, status |-> 0, body |-> <<>>, ending |-> "done"]
Response(ok, status, chunks, ending) ==
    [arrived |-> TRUE, ok |-> ok, status |-> status, body |-> chunks, ending |-> ending]

IdleFetch ==
    [pc |-> "idle", url |-> NoUrl, options |-> "none", reqs |-> <<>>,
     response |-> NoResponse, fallbackResponse |-> NoResponse,
     orig |-> <<>>, src |-> <<>>, ending |-> "done", srcDone |-> FALSE,
     isEncrypted |-> FALSE, piped |-> "none",
     stream |-> "none", delivered |-> <<>>, closeCalls |-> 0, pump |-> "idle",
     result |-> NoResult]

Request(url, gz, options) == [base |-> url.base, path |-> url.path, gz |-> gz, options |-> options]

\* ------------------------------------------------------------ page and state
ViewModes == {"balanced", "progress", "noise"}

\* Lines 55-67.
InitialState ==
    [map |-> FALSE, coreGrid |-> Null, vibeScores |-> Null, metadata |-> Null,
     pulse |-> Null, insights |-> Null, currentViewMode |-> "balanced",
     isLoading |-> FALSE]

NoStats ==
    [set |-> FALSE, regions |-> 0, events |-> 0, noise |-> 0, progress |-> 0,
     avgNaN |-> FALSE, avgVibe |-> 0]
NoPulse == [set |-> FALSE, progress |-> 0, noise |-> 0, ratio |-> 0, ratioClass |-> "html"]

\* state.hoverTooltip, by what the popup prints: no popup, or the cell's colour
\* dot, label and vibe.
NoTooltip ==
    [shown |-> FALSE, h3Index |-> "none", vibe |-> 0, vibeColor |-> "none",
     vibeLabel |-> "none"]

\* The page as index.html delivers it: the loading screen shown, the error
\* screen hidden, the panels holding their placeholders.
InitialUi ==
    [loadingText |-> "html", loadingHidden |-> FALSE, errorShown |-> FALSE,
     errorMessage |-> "html", errorDetails |-> "html", stats |-> NoStats,
     pulse |-> NoPulse, insightsSet |-> FALSE, insights |-> <<>>,
     legend |-> "html", activeButton |-> "html", listeners |-> FALSE,
     hideTimer |-> FALSE, tooltip |-> NoTooltip,
     refreshDisabled |-> FALSE, iconSpinning |-> FALSE]

NoFill == [set |-> FALSE, mode |-> "none", lookup |-> <<>>]
InitialMap ==
    [loaded |-> FALSE, sources |-> {}, layers |-> {}, fill |-> NoFill,
     interactions |-> FALSE, fitted |-> FALSE, hovered |-> "none",
     attempts |-> 0, lastError |-> "none"]

NoProbe == [fn |-> "none", arg |-> "none", mode |-> "none", value |-> 0]

\* Lines 1129-1135.
updateLoadingText(u, text) == [u EXCEPT !.loadingText = text]

\* showError leaving the loading screen over the page.
showErrorKeepsLoading(u, message, details) ==
    [u EXCEPT !.errorShown = TRUE, !.errorMessage = message, !.errorDetails = details]

\* Lines 1140-1150.
showError(u, message, details) ==
    [u EXCEPT !.loadingHidden = TRUE, !.errorShown = TRUE,
              !.errorMessage = message, !.errorDetails = details]

InitFailedMessage ==
    "Failed to initialize AIC. This could be due to missing data files or network issues."

\* ---------------------------------------------------- visualization helpers
Min(a, b) == IF a < b THEN a ELSE b

\* getVisualizationValue without the cap of Math.min.
getVisualizationValueUncapped(st, h3Index) ==
    IF h3Index \notin DOMAIN st.vibeScores.cells THEN 0
    ELSE LET cellData == st.vibeScores.cells[h3Index]
         IN  CASE st.currentViewMode = "progress" -> 2 * cellData.p_int
               [] st.currentViewMode = "noise" -> 2 * cellData.n_int
               [] OTHER -> cellData.vibe + 100

\* Lines 284-297, in two-hundredths: p_int / 10 with p_int in tenths is
\* 2 * p_int two-hundredths, (vibe + 1) / 2 with vibe in hundredths is
\* vibe + 100 two-hundredths.
getVisualizationValue(st, h3Index) ==
    IF h3Index \notin DOMAIN st.vibeScores.cells THEN 0
    ELSE LET cellData == st.vibeScores.cells[h3Index]
         IN  CASE st.currentViewMode = "progress" -> Min(200, 2 * cellData.p_int)
               [] st.currentViewMode = "noise" -> Min(200, 2 * cellData.n_int)
               [] OTHER -> cellData.vibe + 100

\* Lines 302-313.
createVisualizationLookup(st) ==
    [h3Index \in DOMAIN st.vibeScores.cells |-> getVisualizationValue(st, h3Index)]

\* Lines 318-349: the colour ramp is chosen by the view mode alone.
getColorScheme(st) ==
    CASE st.currentViewMode = "progress" -> "progress"
      [] st.currentViewMode = "noise" -> "noise"
      [] OTHER -> "balanced"

FillColor(st) ==
    [set |-> TRUE, mode |-> getColorScheme(st), lookup |-> createVisualizationLookup(st)]

\* Lines 1170-1176, vibe in hundredths.
getVibeColor(vibe) ==
    IF vibe < -50 THEN "#ef4444"
    ELSE IF vibe < 0 THEN "#f97316"
    ELSE IF vibe < 30 THEN "#eab308"
    ELSE IF vibe < 60 THEN "#84cc16"
    ELSE "#22c55e"

\* getVibeLabel comparing with <= : a threshold falls in the lower bucket.
getVibeLabelInclusive(vibe) ==
    IF vibe <= -50 THEN "Crisis"
    ELSE IF vibe <= 0 THEN "Tense"
    ELSE IF vibe <= 30 THEN "Neutral"
    ELSE IF vibe <= 60 THEN "Stable"
    ELSE "Thriving"

\* Lines 1181-1187, vibe in hundredths.
getVibeLabel(vibe) ==
    IF vibe < -50 THEN "Crisis"
    ELSE IF vibe < 0 THEN "Tense"
    ELSE IF vibe < 30 THEN "Neutral"
    ELSE IF vibe < 60 THEN "Stable"
    ELSE "Thriving"

\* Lines 1068-1088: the ranges the balanced legend prints, in hundredths.
BalancedLegend ==
    <<[label |-> "Crisis", from |-> -100, to |-> -50],
      [label |-> "Tense", from |-> -50, to |-> 0],
      [label |-> "Neutral", from |-> 0, to |-> 30],
      [label |-> "Stable", from |-> 30, to |-> 60],
      [label |-> "Thriving", from |-> 60, to |-> 100]>>

\* Lines 574-629: the tooltip of a cell.
showHoverTooltip(u, cellData, h3Index) ==
    [u EXCEPT !.tooltip =
        [shown |-> TRUE, h3Index |-> h3Index, vibe |-> cellData.vibe,
         vibeColor |-> getVibeColor(cellData.vibe),
         vibeLabel |-> getVibeLabel(cellData.vibe)]]

\* OrZero reading a missing property as 1.
OrZeroCountsMissing(o, k) == IF k \in DOMAIN o THEN o[k] ELSE 1

\* x || 0 of a numeric property: a missing property and 0 both give 0.
OrZero(o, k) == IF k \in DOMAIN o THEN o[k] ELSE 0

RECURSIVE SumOver(_, _, _)
SumOver(cells, keys, k) ==
    IF keys = {} THEN 0
    ELSE LET h == CHOOSE x \in keys : TRUE
         IN  OrZero(cells[h], k) + SumOver(cells, keys \ {h}, k)

Abs(x) == IF x < 0 THEN -x ELSE x

\* (total / n).toFixed(3) of a total in hundredths, in thousandths: the nearest
\* thousandth, a tie going away from zero.
ToFixed3(total, n) ==
    LET num == 10 * Abs(total)
        q == num \div n
        r == num % n
        mag == IF 2 * r >= n THEN q + 1 ELSE q
    IN  IF total < 0 THEN -mag ELSE mag

\* Lines 938-1006.
updateStats(st, u) ==
    IF IsNull(st.vibeScores) \/ IsNull(st.coreGrid) THEN u
    ELSE LET cells == st.vibeScores.cells
             keys == DOMAIN cells
             totalRegions == Cardinality(keys)
             totalVibe == SumOver(cells, keys, "vibe")
         IN  [u EXCEPT !.stats =
                [set |-> TRUE,
                 regions |-> totalRegions,
                 events |-> SumOver(cells, keys, "count"),
                 noise |-> SumOver(cells, keys, "noise_count"),
                 progress |-> SumOver(cells, keys, "progress_count"),
                 avgNaN |-> totalRegions = 0,
                 avgVibe |-> IF totalRegions = 0 THEN 0
                             ELSE ToFixed3(totalVibe, totalRegions)]]

\* Lines 869-911: a pulse lacking one of its numbers makes it throw before it
\* has written anything.
PulseThrows(st) ==
    /\ ~IsNull(st.pulse)
    /\ ~({"progress_signal", "noise_signal", "humanity_ratio"} \subseteq DOMAIN st.pulse)

updateGlobalPulse(st, u) ==
    IF IsNull(st.pulse) THEN u
    ELSE [u EXCEPT !.pulse =
            [set |-> TRUE, progress |-> st.pulse.progress_signal,
             noise |-> st.pulse.noise_signal, ratio |-> st.pulse.humanity_ratio,
             ratioClass |-> IF st.pulse.humanity_ratio > 100 THEN "green"
                            ELSE IF st.pulse.humanity_ratio > 50 THEN "yellow"
                            ELSE "red"]]

\* Lines 916-933.
updateInsights(st, u) ==
    IF IsNull(st.insights) \/ Len(st.insights.items) = 0 THEN u
    ELSE [u EXCEPT !.insightsSet = TRUE, !.insights = st.insights.items]

\* Lines 1011-1094.
updateLegend(st, u) == [u EXCEPT !.legend = getColorScheme(st)]

\* Lines 1099-1124.
updateActiveButton(u, mode) == [u EXCEPT !.activeButton = mode]

\* Lines 788-813.
CanUpdateColors(st, m) ==
    st.map /\ "h3-grid" \in m.sources /\ ~IsNull(st.vibeScores)

MapAfterUpdateColors(st, m) ==
    IF CanUpdateColors(st, m) THEN [m EXCEPT !.fill = FillColor(st)] ELSE m

UiAfterUpdateColors(st, m, u) ==
    IF CanUpdateColors(st, m) THEN updateLegend(st, updateStats(st, u)) ELSE u

\* Lines 839-842: what refreshVibeScores does once state.vibeScores is written.
UiAfterRefresh(st, m, u) ==
    updateInsights(st, updateGlobalPulse(st, updateStats(st, UiAfterUpdateColors(st, m, u))))

\* ------------------------------------------------- fetchWithDecompress
\* Lines 123-125: the call, up to the first await.
Called(url, options) ==
    [IdleFetch EXCEPT !.pc = "awaitFetch", !.url = url, !.options = options,
                      !.reqs = <<Request(url, useGzip, options)>>]

FetchCall(c, url, options) ==
    /\ fetches[c].pc = "idle"
    /\ fetches' = [fetches EXCEPT ![c] = Called(url, options)]

Throw(f, err, status) == [f EXCEPT !.pc = "settled", !.result = Thrown(err, status)]
Return(f, r) == [f EXCEPT !.pc = "settled", !.result = r]

\* OnResponse with the fallback forgotten: a failed .gz request is final.
OnResponseNoFallback(f, ok, status, chunks, ending) ==
    LET g == [f EXCEPT !.response = Response(ok, status, chunks, ending)]
    IN  IF ~ok THEN Throw(g, "HTTP", status)
        ELSE [g EXCEPT !.pc = "awaitFirstRead", !.orig = chunks, !.src = chunks,
                       !.ending = ending]

\* Lines 125-135: the first response arrives.
OnResponse(f, ok, status, chunks, ending) ==
    LET g == [f EXCEPT !.response = Response(ok, status, chunks, ending)]
    IN  IF ~ok
        THEN IF useGzip
             THEN [g EXCEPT !.pc = "awaitFallback",
                            !.reqs = Append(@, Request(f.url, FALSE, f.options))]
             ELSE Throw(g, "HTTP", status)
        ELSE [g EXCEPT !.pc = "awaitFirstRead", !.orig = chunks, !.src = chunks,
                       !.ending = ending]

\* Lines 130-132: the fallback response arrives; its body is read whole by json().
OnFallbackResponse(f, ok, status, chunks, ending) ==
    LET g == [f EXCEPT !.fallbackResponse = Response(ok, status, chunks, ending)]
    IN  IF ~ok THEN Throw(g, "HTTP", status)
        ELSE IF ending = "error" THEN Throw(g, "NetworkError", 0)
        ELSE Return(g, ParseJson(Flatten(chunks)))

\* Line 145: the magic-number test on the first chunk (an index past the end of
\* the chunk reads undefined, which equals no byte).
IsEncrypted(value) ==
    /\ Len(value) >= 1 /\ value[1] = GzipMagic0
    /\ Len(value) >= 2 /\ value[2] = GzipMagic1

\* Lines 139-163: the first read, the peek and the start of combinedStream.
OnFirstRead(f) ==
    IF f.src = <<>>
    THEN IF f.ending = "done"
         THEN Return([f EXCEPT !.srcDone = TRUE], Returned(0))
         ELSE Throw(f, "NetworkError", 0)
    ELSE LET value == Head(f.src)
         IN  [f EXCEPT !.pc = "awaitJson", !.src = Tail(@),
                       !.isEncrypted = IsEncrypted(value),
                       !.piped = IF IsEncrypted(value) THEN "gzip" ELSE "plain",
                       !.stream = "readable", !.delivered = <<value>>,
                       !.pump = "reading"]

\* OnPush closing the stream without looking at done: a chunk read together
\* with the end of the body is dropped.
OnPushDropsLast(f) ==
    IF Len(f.src) <= 1
    THEN IF f.ending = "done"
         THEN IF f.stream = "readable"
              THEN [f EXCEPT !.srcDone = TRUE, !.src = <<>>, !.stream = "closed",
                             !.closeCalls = @ + 1, !.pump = "stopped"]
              ELSE [f EXCEPT !.srcDone = TRUE, !.src = <<>>, !.pump = "threw"]
         ELSE [f EXCEPT !.pump = "rejected"]
    ELSE IF f.stream = "readable"
         THEN [f EXCEPT !.src = Tail(@), !.delivered = Append(@, Head(f.src))]
         ELSE [f EXCEPT !.src = Tail(@), !.pump = "threw"]

\* Lines 151-160: one turn of push(): the read resolves and the chunk is
\* enqueued, or the stream is closed, or the read rejects and nothing handles it.
\* enqueue and close throw on a stream its consumer has cancelled.
OnPush(f) ==
    IF f.src = <<>>
    THEN IF f.ending = "done"
         THEN IF f.stream = "readable"
              THEN [f EXCEPT !.srcDone = TRUE, !.stream = "closed",
                             !.closeCalls = @ + 1, !.pump = "stopped"]
              ELSE [f EXCEPT !.srcDone = TRUE, !.pump = "threw"]
         ELSE [f EXCEPT !.pump = "rejected"]
    ELSE IF f.stream = "readable"
         THEN [f EXCEPT !.src = Tail(@), !.delivered = Append(@, Head(f.src))]
         ELSE [f EXCEPT !.src = Tail(@), !.pump = "threw"]

\* Lines 165-177: the body has been read to its end through the chosen pipe.
OnJson(f) ==
    LET bytes == Flatten(f.delivered)
    IN  IF f.isEncrypted
        THEN IF IsGzipFile(bytes) /\ ParseJson(Gunzip(bytes)).kind = "return"
             THEN Return(f, ParseJson(Gunzip(bytes)))
             ELSE Throw(f, "CORRUPTED_GZIP", 0)
        ELSE Return(f, ParseJson(bytes))

\* Lines 166-173: the decompression fails before the body has ended; the pipe
\* cancels combinedStream.
OnDecompressError(f) == [Throw(f, "CORRUPTED_GZIP", 0) EXCEPT !.stream = "cancelled"]

Statuses == {404, 500}
Endings == {"done", "error"}

\* The responses a server can send in SpecFetch: any bytes, divided in any way,
\* the body ending or failing after them.
AnyBodies == UNION {Chunkings(b) : b \in ByteSeqs(MaxBodyLen)}
AnyResponses == AnyBodies \X Endings

\* The caller has taken the result of a settled call: the locals of the call are
\* gone, unless push() is still reading for a cancelled stream.
Consumed(f) ==
    IF f.pump = "reading" THEN [f EXCEPT !.pc = "consumed"]
    ELSE [IdleFetch EXCEPT !.pc = "consumed", !.url = f.url, !.options = f.options,
                           !.reqs = f.reqs, !.result = f.result]

FetchResponds(c, Responses) ==
    /\ fetches[c].pc = "awaitFetch"
    /\ \/ \E status \in Statuses :
            fetches' = [fetches EXCEPT ![c] = OnResponse(@, FALSE, status, <<>>, "done")]
       \/ \E r \in Responses :
            fetches' = [fetches EXCEPT ![c] = OnResponse(@, TRUE, 200, r[1], r[2])]
    /\ UNCHANGED <<config, app>>

FetchRejects(c) ==
    /\ fetches[c].pc \in {"awaitFetch", "awaitFallback"}
    /\ fetches' = [fetches EXCEPT ![c] = Throw(@, "NetworkError", 0)]
    /\ UNCHANGED <<config, app>>

FallbackResponds(c, Responses) ==
    /\ fetches[c].pc = "awaitFallback"
    /\ \/ \E status \in Statuses :
            fetches' = [fetches EXCEPT ![c] = OnFallbackResponse(@, FALSE, status, <<>>, "done")]
       \/ \E r \in Responses :
            fetches' = [fetches EXCEPT ![c] = OnFallbackResponse(@, TRUE, 200, r[1], r[2])]
    /\ UNCHANGED <<config, app>>

FirstRead(c) ==
    /\ fetches[c].pc = "awaitFirstRead"
    /\ fetches' = [fetches EXCEPT ![c] = OnFirstRead(@)]
    /\ UNCHANGED <<config, app>>

Push(c) ==
    /\ fetches[c].pump = "reading"
    /\ fetches' = [fetches EXCEPT ![c] = OnPush(@)]
    /\ UNCHANGED <<config, app>>

JsonSettles(c) ==
    /\ fetches[c].pc = "awaitJson"
    /\ fetches[c].stream = "closed"
    /\ fetches' = [fetches EXCEPT ![c] = OnJson(@)]
    /\ UNCHANGED <<config, app>>

DecompressFails(c) ==
    /\ fetches[c].pc = "awaitJson"
    /\ fetches[c].isEncrypted
    /\ fetches[c].stream = "readable"
    /\ ~IsGzipPrefix(Flatten(fetches[c].delivered))
    /\ fetches' = [fetches EXCEPT ![c] = OnDecompressError(@)]
    /\ UNCHANGED <<config, app>>

\* ------------------------------------------------------------- data loading
MetadataUrl == [base |-> dataBaseUrl(hostname), path |-> <<"metadata.json">>]
VibeScoresUrl == [base |-> dataBaseUrl(hostname), path |-> <<"vibe_scores.json">>]

\* Line 204: replace(/^core\//, '') and replace(/^current\//, '') on a path
\* given by its segments.
StripPrefix(path, dir) ==
    IF Len(path) >= 2 /\ Head(path) = dir THEN Tail(path) ELSE path
cleanPath(gridFile) == StripPrefix(StripPrefix(gridFile, "core"), "current")

GridUrl(metadata) ==
    [base |-> dataBaseUrl(hostname), path |-> cleanPath(metadata.available_files.core_grid)]

\* Line 201 throws a TypeError on a metadata that is null or names no grid file.
HasGridFile(metadata) ==
    /\ Has(metadata, "available_files")
    /\ Has(metadata.available_files, "core_grid")

\* WithH3Index with the spread written last: an h3_index the feature already
\* carries wins over its id.
WithH3IndexKept(feature) ==
    LET props == IF "properties" \in DOMAIN feature THEN feature.properties ELSE <<>>
        id == IF "id" \in DOMAIN feature THEN feature.id ELSE "undefined"
        keys == (DOMAIN props) \cup {"h3_index"}
        properties == [k \in keys |-> IF k \in DOMAIN props THEN props[k] ELSE id]
    IN  [k \in (DOMAIN feature) \cup {"properties"} |->
            IF k = "properties" THEN properties ELSE feature[k]]

\* Lines 211-217: the feature with its id copied into properties.h3_index.
WithH3Index(feature) ==
    LET props == IF "properties" \in DOMAIN feature THEN feature.properties ELSE <<>>
        id == IF "id" \in DOMAIN feature THEN feature.id ELSE "undefined"
        keys == (DOMAIN props) \cup {"h3_index"}
        properties == [k \in keys |-> IF k = "h3_index" THEN id ELSE props[k]]
    IN  [k \in (DOMAIN feature) \cup {"properties"} |->
            IF k = "properties" THEN properties ELSE feature[k]]

MapFeatures(features) == [i \in 1 .. Len(features) |-> WithH3Index(features[i])]

\* Lines 211-221: the grid loadCoreGrid returns; lines 211 and 219 throw a
\* TypeError on a grid without features or without metadata.
GridLoads(grid) == Has(grid, "features") /\ Has(grid, "metadata")
LoadedGrid(grid) == [grid EXCEPT !.features = MapFeatures(grid.features)]

\* Lines 240-250: what loadVibeScores does with the fetched data. A null data
\* throws at line 241, before anything is written; data without cells throws at
\* line 244, after pulse and insights were written.
VibeLoads(data) == Has(data, "cells")
StateAfterVibeData(st, data) ==
    IF IsNull(data) THEN st
    ELSE [st EXCEPT !.pulse = IF "pulse" \in DOMAIN data THEN data.pulse ELSE Null,
                    !.insights = IF "insights" \in DOMAIN data THEN data.insights
                                                 ELSE Array(<<>>)]

MetadataError == "Could not load metadata file. Ensure data pipeline has run."
GridError == "Could not load grid geometry. Check data files."
VibeError == "Could not load vibe scores. Data may be processing."

\* ------------------------------------------------------------- initialize
MaxPolls == 20

\* Lines 1332-1338 after a throw inside initialize; loadAllData's catch (lines
\* 271-274) has reset isLoading on the way.
Fail(st, u, details) ==
    /\ pc' = "failed"
    /\ state' = [st EXCEPT !.isLoading = FALSE]
    /\ ui' = showError(u, InitFailedMessage, details)

\* Lines 1196-1293.
setupEventListeners(u) == [u EXCEPT !.listeners = TRUE]

\* MapCheck polling while retryCount <= 20.
MapCheckOnePollMore(rc, u) ==
    IF container = "unsized" /\ rc <= MaxPolls
    THEN /\ pc' = "mapWait"
         /\ retryCount' = rc
         /\ ui' = u
         /\ UNCHANGED <<state, mapRetry, map>>
    ELSE IF container = "unsized"
    THEN /\ Fail(state, u, "Map container still has invalid dimensions after waiting")
         /\ retryCount' = 0
         /\ UNCHANGED <<mapRetry, map>>
    ELSE /\ retryCount' = 0
         /\ \E outcome \in {"built", "null", "property 0", "other"} :
               /\ map' = [map EXCEPT !.attempts = @ + 1,
                                     !.lastError = IF outcome = "built" THEN "none" ELSE outcome]
               /\ IF outcome = "built"
                  THEN /\ state' = [state EXCEPT !.map = TRUE]
                       /\ ui' = setupEventListeners(u)
                       /\ pc' = "awaitMapLoad"
                       /\ UNCHANGED mapRetry
                  ELSE IF outcome \in {"null", "property 0"} /\ ~mapRetry
                  THEN /\ mapRetry' = TRUE
                       /\ pc' = "mapRetryWait"
                       /\ ui' = u
                       /\ UNCHANGED state
                  ELSE /\ Fail(state, u, "Map initialization failed")
                       /\ UNCHANGED mapRetry

\* Lines 370-408 from the loop test on, and line 1307 when the map was built:
\* the size is polled while retryCount < 20; the constructor is then called and
\* builds the map or throws an error whose message holds 'null', holds
\* 'property 0' or holds neither.
MapCheck(rc, u) ==
    IF container = "unsized" /\ rc < MaxPolls
    THEN /\ pc' = "mapWait"
         /\ retryCount' = rc
         /\ ui' = u
         /\ UNCHANGED <<state, mapRetry, map>>
    ELSE IF container = "unsized"
    THEN /\ Fail(state, u, "Map container still has invalid dimensions after waiting")
         /\ retryCount' = 0
         /\ UNCHANGED <<mapRetry, map>>
    ELSE /\ retryCount' = 0
         /\ \E outcome \in {"built", "null", "property 0", "other"} :
               /\ map' = [map EXCEPT !.attempts = @ + 1,
                                     !.lastError = IF outcome = "built" THEN "none" ELSE outcome]
               /\ IF outcome = "built"
                  THEN /\ state' = [state EXCEPT !.map = TRUE]
                       /\ ui' = setupEventListeners(u)
                       /\ pc' = "awaitMapLoad"
                       /\ UNCHANGED mapRetry
                  ELSE IF outcome \in {"null", "property 0"} /\ ~mapRetry
                  THEN /\ mapRetry' = TRUE
                       /\ pc' = "mapRetryWait"
                       /\ ui' = u
                       /\ UNCHANGED state
                  ELSE /\ Fail(state, u, "Map initialization failed")
                       /\ UNCHANGED mapRetry

\* Lines 359-369, then the loop.
EnterInitializeMap ==
    LET u == updateLoadingText(ui, "Initializing map...")
    IN  IF container = "missing"
        THEN /\ Fail(state, u, "Map container not found")
             /\ retryCount' = 0
             /\ UNCHANGED <<mapRetry, map>>
        ELSE MapCheck(0, u)

\* Lines 1302-1306: initialize runs once the page has loaded.
Initialize ==
    /\ pc = "start"
    /\ EnterInitializeMap
    /\ UNCHANGED <<config, lastStarted, fetches, container, probe>>

\* Lines 372-373: the 100 ms wait of the polling loop is over.
MapPollTimer ==
    /\ pc = "mapWait"
    /\ MapCheck(retryCount + 1, ui)
    /\ UNCHANGED <<config, lastStarted, fetches, container, probe>>

\* Lines 403-404: the 500 ms wait is over and initializeMap runs again.
MapRetryTimer ==
    /\ pc = "mapRetryWait"
    /\ EnterInitializeMap
    /\ UNCHANGED <<config, lastStarted, fetches, container, probe>>

\* The page lays the container out while initializeMap polls.
ContainerSized ==
    /\ container = "unsized"
    /\ pc \in {"start", "mapWait"}
    /\ container' = "sized"
    /\ UNCHANGED <<config, lastStarted, fetches, state, ui, map, pc, retryCount, mapRetry, probe>>

\* MapLoad with the loads started side by side instead of awaited in turn.
MapLoadParallel ==
    /\ pc = "awaitMapLoad"
    /\ map' = [map EXCEPT !.loaded = TRUE]
    /\ state' = [state EXCEPT !.isLoading = TRUE]
    /\ fetches' = [fetches EXCEPT !["metadata"] = Called(MetadataUrl, "default"),
                                  !["vibe"] = Called(VibeScoresUrl, "no-cache")]
    /\ pc' = "loadMetadata"
    /\ lastStarted' = "vibe"
    /\ UNCHANGED <<config, ui, container, retryCount, mapRetry, probe>>

\* Lines 1309-1315, 262-264 and 183-185: the map fires load; loadAllData starts
\* and loadMetadata requests the metadata.
MapLoad ==
    /\ pc = "awaitMapLoad"
    /\ map' = [map EXCEPT !.loaded = TRUE]
    /\ state' = [state EXCEPT !.isLoading = TRUE]
    /\ FetchCall("metadata", MetadataUrl, "default")
    /\ pc' = "loadMetadata"
    /\ UNCHANGED <<config, lastStarted, ui, container, retryCount, mapRetry, probe>>

\* Lines 185-191, 264-265 and 197-208: the metadata call has settled; on
\* success loadCoreGrid requests the grid file the metadata names.
MetadataSettled ==
    /\ pc = "loadMetadata"
    /\ fetches["metadata"].pc = "settled"
    /\ LET r == fetches["metadata"].result
           metadata == Doc(r.doc)
           u == updateLoadingText(ui, "Loading grid geometry...")
       IN  IF r.kind = "throw"
           THEN /\ Fail(state, ui, MetadataError)
                /\ fetches' = [fetches EXCEPT !["metadata"] = Consumed(@)]
           ELSE IF ~HasGridFile(metadata)
           THEN /\ Fail([state EXCEPT !.metadata = metadata], u, GridError)
                /\ fetches' = [fetches EXCEPT !["metadata"] = Consumed(@)]
           ELSE /\ state' = [state EXCEPT !.metadata = metadata]
                /\ ui' = u
                /\ fetches' = [fetches EXCEPT !["metadata"] = Consumed(@),
                                               !["grid"] = Called(GridUrl(metadata), "force-cache")]
                /\ pc' = "loadCoreGrid"
    /\ UNCHANGED <<config, lastStarted, map, container, retryCount, mapRetry, probe>>

\* Lines 206-226, 265-266 and 231-238: the grid call has settled; on success
\* loadVibeScores requests the vibe scores.
GridSettled ==
    /\ pc = "loadCoreGrid"
    /\ fetches["grid"].pc = "settled"
    /\ LET r == fetches["grid"].result
           grid == Doc(r.doc)
       IN  IF r.kind = "throw" \/ ~GridLoads(grid)
           THEN /\ Fail(state, ui, GridError)
                /\ fetches' = [fetches EXCEPT !["grid"] = Consumed(@)]
                /\ UNCHANGED lastStarted
           ELSE /\ state' = [state EXCEPT !.coreGrid = LoadedGrid(grid)]
                /\ ui' = updateLoadingText(ui, "Loading vibe scores...")
                /\ fetches' = [fetches EXCEPT !["grid"] = Consumed(@),
                                               !["vibe"] = Called(VibeScoresUrl, "no-cache")]
                /\ pc' = "loadVibeScores"
                /\ lastStarted' = "vibe"
    /\ UNCHANGED <<config, map, container, retryCount, mapRetry, probe>>

\* Lines 417-421.
addMapSources(m) == [m EXCEPT !.sources = @ \cup {"h3-grid"}]

\* Lines 429-497.
addMapLayers(st, m) ==
    [m EXCEPT !.layers = @ \cup {"vibe-fill", "vibe-outline", "vibe-hover"},
              !.fill = FillColor(st)]

\* Lines 1317-1320: the map after the sources, layers, interactions and bounds.
MapAfterData(st, m) ==
    [addMapLayers(st, addMapSources(m)) EXCEPT !.interactions = TRUE, !.fitted = TRUE]

\* Lines 1322-1328 when nothing throws.
UiAfterData(st, u) ==
    [updateActiveButton(
        updateLegend(st, updateInsights(st, updateGlobalPulse(st, updateStats(st, u)))),
        "balanced")
     EXCEPT !.hideTimer = TRUE]

\* Lines 240-255, 266-269 and 1317-1338: the vibe-score call has settled; on
\* success the map gets its source and layers and the panels are filled.
VibeSettled ==
    /\ pc = "loadVibeScores"
    /\ fetches["vibe"].pc = "settled"
    /\ LET r == fetches["vibe"].result
           data == Doc(r.doc)
           st == [StateAfterVibeData(state, data) EXCEPT !.vibeScores = data,
                                                        !.isLoading = FALSE]
       IN  IF r.kind = "throw"
           THEN Fail(state, ui, VibeError) /\ UNCHANGED map
           ELSE IF ~VibeLoads(data)
           THEN Fail(StateAfterVibeData(state, data), ui, VibeError) /\ UNCHANGED map
           ELSE IF PulseThrows(st)
           THEN /\ Fail(st, updateStats(st, updateLoadingText(ui, "Rendering visualization...")),
                        "TypeError")
                /\ map' = MapAfterData(st, map)
           ELSE /\ state' = st
                /\ map' = MapAfterData(st, map)
                /\ ui' = UiAfterData(st, updateLoadingText(ui, "Rendering visualization..."))
                /\ pc' = "ready"
    /\ fetches' = [fetches EXCEPT !["vibe"] = Consumed(@)]
    /\ UNCHANGED <<config, lastStarted, container, retryCount, mapRetry, probe>>

\* Lines 1158-1160: the timer of hideLoadingScreen fires.
HideLoadingTimer ==
    /\ ui.hideTimer
    /\ ui' = [ui EXCEPT !.hideTimer = FALSE, !.loadingHidden = TRUE]
    /\ UNCHANGED <<config, lastStarted, fetches, state, map, pc, container, retryCount, mapRetry, probe>>

\* Lines 1219-1270: a click on a view button, once the listeners are set up.
ClickView(mode) ==
    /\ ui.listeners
    /\ LET st == [state EXCEPT !.currentViewMode = mode]
       IN  /\ state' = st
           /\ map' = MapAfterUpdateColors(st, map)
           /\ ui' = updateActiveButton(UiAfterUpdateColors(st, map, ui), mode)
    /\ UNCHANGED <<config, lastStarted, fetches, pc, container, retryCount, mapRetry, probe>>

\* Lines 1285-1289: a click on the Retry button of the error screen, when its
\* listener was registered, reloads the page.
ClickRetry ==
    /\ ui.errorShown
    /\ ui.listeners
    /\ fetches' = [c \in FetchIds |-> IdleFetch]
    /\ state' = InitialState
    /\ ui' = InitialUi
    /\ map' = InitialMap
    /\ pc' = "start"
    /\ container' \in {"missing", "unsized", "sized"}
    /\ retryCount' = 0
    /\ mapRetry' = FALSE
    /\ probe' = NoProbe
    /\ lastStarted' = "none"
    /\ UNCHANGED config

\* The documents the data server can hold under the URL of each load: the
\* documents of its kind, well-formed or not, and one of another kind.
FileDocs(c) ==
    CASE c = "metadata" -> {1, 2, 3}
      [] c = "grid" -> {4, 5, 6, 3}
      [] OTHER -> {7, 8, 9, 10, 3}

\* The responses the data server sends: a document gzipped or plain in one
\* chunk, or gzipped and cut after the magic number with the body then ending
\* or failing; a corrupt gzip file; an empty body.
FileResponses(c) ==
    UNION {{<<<<GzipFile(d)>>, "done">>, <<<<JsonText(d)>>, "done">>,
            <<<<<<GzipMagic0, GzipMagic1>>, <<d>>>>, "done">>,
            <<<<<<GzipMagic0, GzipMagic1>>, <<d>>>>, "error">>} : d \in FileDocs(c)}
    \cup {<<<<<<GzipMagic0, GzipMagic1, GzipMagic0>>, <<GzipMagic1>>>>, "done">>, <<<<>>, "done">>}

LoadIds == {"metadata", "grid", "vibe"}

Init ==
    /\ hostname \in Hostnames
    /\ useGzip = TRUE
    /\ fetches = [c \in FetchIds |-> IdleFetch]
    /\ state = InitialState
    /\ ui = InitialUi
    /\ map = InitialMap
    /\ pc = "start"
    /\ container \in {"missing", "unsized", "sized"}
    /\ retryCount = 0
    /\ mapRetry = FALSE
    /\ probe = NoProbe
    /\ lastStarted = "none"

Next ==
    \/ Initialize
    \/ MapPollTimer
    \/ MapRetryTimer
    \/ ContainerSized
    \/ MapLoad
    \/ MetadataSettled
    \/ GridSettled
    \/ VibeSettled
    \/ HideLoadingTimer
    \/ \E mode \in ViewModes : ClickView(mode)
    \/ ClickRetry
    \/ \E c \in LoadIds :
          \/ FetchResponds(c, FileResponses(c))
          \/ FetchRejects(c)
          \/ FallbackResponds(c, FileResponses(c))
          \/ FirstRead(c)
          \/ Push(c)
          \/ JsonSettles(c)
          \/ DecompressFails(c)

Spec == Init /\ [][Next]_vars

\* ------------------------------------------------ SpecFetch: one call
ProbeOptions == {"default", "no-cache"}

InitFetch ==
    /\ hostname = "localhost"
    /\ useGzip \in BOOLEAN
    /\ fetches = [c \in FetchIds |-> IdleFetch]
    /\ state = InitialState
    /\ ui = InitialUi
    /\ map = InitialMap
    /\ pc = "start"
    /\ container = "sized"
    /\ retryCount = 0
    /\ mapRetry = FALSE
    /\ probe = NoProbe
    /\ lastStarted = "none"

CallFetch ==
    /\ \E options \in ProbeOptions :
          FetchCall("probe", [base |-> dataBaseUrl(hostname), path |-> <<"vibe_scores.json">>], options)
    /\ UNCHANGED <<config, app>>

NextFetch ==
    \/ CallFetch
    \/ FetchResponds("probe", AnyResponses)
    \/ FetchRejects("probe")
    \/ FallbackResponds("probe", AnyResponses)
    \/ FirstRead("probe")
    \/ Push("probe")
    \/ JsonSettles("probe")
    \/ DecompressFails("probe")

SpecFetch == InitFetch /\ [][NextFetch]_vars

\* ------------------------------------------- SpecMap: initializeMap alone
\* initialize up to the end of initializeMap, its timers firing when they are
\* due.
NextMap ==
    \/ Initialize
    \/ MapPollTimer
    \/ MapRetryTimer
    \/ ContainerSized

SpecMap == Init /\ [][NextMap]_vars /\ WF_vars(NextMap)

\* SpecFetch with its steps taken whenever one can be: the server answers, the
\* reads resolve or reject, and the pending promise reactions run.
SpecFetchLive == SpecFetch /\ WF_vars(NextFetch)

\* ------------------------------------- SpecView: the page after its loads
\* The cells a vibe_scores.json can hold for each cell id: vibes on and around
\* the thresholds and outside [-1, 1], intensities below, at and above the cap
\* and negative, event counts present, partly present and missing.
CellIds == {"h1", "h2", "h3"}

VibeValues == {-120, -100, -51, -50, -1, 0, 29, 30, 59, 60, 100, 120}

Intensities == {<<0, 0>>, <<99, 100>>, <<100, 101>>, <<250, -10>>, <<-5, 50>>}

CellsOf(h) ==
    CASE h = "h1" ->
            {Cell(v, 30, 5) : v \in VibeValues}
            \cup {Cell(10, p[1], p[2]) : p \in Intensities}
            \cup {CellCounted(20, 10, 10, 4, 1, 3),
                  [vibe |-> 20, p_int |-> 10, n_int |-> 10, count |-> 4],
                  [vibe |-> 20, p_int |-> 10, n_int |-> 10, noise_count |-> 2,
                   progress_count |-> 0]}
      [] h = "h2" -> {Cell(-33, 0, 120), CellCounted(55, 20, 40, 7, 3, 4)}
      [] OTHER -> {CellCounted(11, 0, 0, 1, 1, 0), Cell(-77, 5, 5)}

CellMaps ==
    UNION {{cells \in [D -> UNION {CellsOf(h) : h \in CellIds}] :
                \A h \in D : cells[h] \in CellsOf(h)} : D \in SUBSET CellIds}

ViewPayload(cells) == [cells |-> cells, pulse |-> Pulse1, insights |-> Array(<<"story1">>)]

\* The states initialize and a refresh leave the page in: the grid loaded or
\* its load failed, the vibe scores loaded (by loadAllData, or by a refresh
\* after the failure) or not.
InitView ==
    /\ hostname = "localhost"
    /\ useGzip = TRUE
    /\ fetches = [c \in FetchIds |-> IdleFetch]
    /\ container = "sized"
    /\ retryCount = 0
    /\ mapRetry = FALSE
    /\ probe = NoProbe
    /\ lastStarted = "none"
    /\ \E cells \in CellMaps, gridLoaded \in BOOLEAN, vibeLoaded \in BOOLEAN :
          LET data == ViewPayload(cells)
              base == [InitialState EXCEPT
                          !.map = TRUE, !.metadata = Doc(1),
                          !.coreGrid = IF gridLoaded THEN LoadedGrid(Doc(4)) ELSE Null]
              st == IF vibeLoaded
                    THEN [StateAfterVibeData(base, data) EXCEPT !.vibeScores = data]
                    ELSE base
              m == [InitialMap EXCEPT !.loaded = TRUE, !.attempts = 1]
              u == setupEventListeners(InitialUi)
              failed == showError(updateLoadingText(u, IF gridLoaded THEN "Loading vibe scores..."
                                                       ELSE "Loading grid geometry..."),
                                  InitFailedMessage,
                                  IF gridLoaded THEN VibeError ELSE GridError)
          IN  /\ state = st
              /\ IF gridLoaded /\ vibeLoaded
                 THEN /\ pc = "ready"
                      /\ map = MapAfterData(st, m)
                      /\ ui = UiAfterData(st, updateLoadingText(u, "Rendering visualization..."))
                 ELSE /\ pc = "failed"
                      /\ map = m
                      /\ ui = IF vibeLoaded THEN UiAfterRefresh(st, m, failed) ELSE failed

\* Lines 505-531: the pointer moves over the i-th feature of the grid.
MouseMove(i) ==
    /\ map.interactions
    /\ i \in 1 .. Len(state.coreGrid.features)
    /\ LET h3Index == state.coreGrid.features[i].properties.h3_index
           cells == state.vibeScores.cells
       IN  /\ map' = [map EXCEPT !.hovered = h3Index]
           /\ ui' = IF h3Index \in DOMAIN cells
                    THEN showHoverTooltip(ui, cells[h3Index], h3Index)
                    ELSE ui
    /\ UNCHANGED <<config, lastStarted, fetches, state, pc, container, retryCount, mapRetry, probe>>

\* Lines 533-547: the pointer leaves the layer.
MouseLeave ==
    /\ map.interactions
    /\ map' = [map EXCEPT !.hovered = "none"]
    /\ ui' = [ui EXCEPT !.tooltip = NoTooltip]
    /\ UNCHANGED <<config, lastStarted, fetches, state, pc, container, retryCount, mapRetry, probe>>

\* getVisualizationValue(h3Index) called with state.currentViewMode reading
\* mode; with no vibe scores loaded the call throws at line 285.
CallGetVisualizationValue(h3Index, mode) ==
    /\ ~IsNull(state.vibeScores)
    /\ probe' = [fn |-> "getVisualizationValue", arg |-> h3Index, mode |-> mode,
                 value |-> getVisualizationValue([state EXCEPT !.currentViewMode = mode],
                                                 h3Index)]
    /\ UNCHANGED <<config, lastStarted, fetches, state, ui, map, pc, container, retryCount, mapRetry>>

\* updateStats() called on the page as it is.
CallUpdateStats ==
    /\ ui' = updateStats(state, ui)
    /\ probe' = [fn |-> "updateStats", arg |-> "none", mode |-> "none", value |-> 0]
    /\ UNCHANGED <<config, lastStarted, fetches, state, map, pc, container, retryCount, mapRetry>>

NextView ==
    \/ \E mode \in ViewModes : ClickView(mode)
    \/ HideLoadingTimer
    \/ \E i \in 1 .. 2 : MouseMove(i)
    \/ MouseLeave
    \/ \E h3Index \in CellIds \cup {"h9"}, mode \in ViewModes \cup {"heat"} :
          CallGetVisualizationValue(h3Index, mode)
    \/ CallUpdateStats

SpecView == InitView /\ [][NextView]_vars

\* ------------------------------------- SpecRefresh: the page and its refreshes
\* Lines 818-838 and 231-238: refreshVibeScores is called; it spins the icons,
\* disables the buttons and loadVibeScores requests the vibe scores. The calls
\* of a run take the ids refresh1 and refresh2 in this order.
StartRefresh(r) ==
    /\ fetches[r].pc = "idle"
    /\ r = "refresh2" => fetches["refresh1"].pc /= "idle"
    /\ fetches' = [fetches EXCEPT ![r] = Called(VibeScoresUrl, "no-cache")]
    /\ ui' = [updateLoadingText(ui, "Loading vibe scores...") EXCEPT
                 !.refreshDisabled = TRUE, !.iconSpinning = TRUE]
    /\ lastStarted' = r
    /\ UNCHANGED <<config, state, map, pc, container, retryCount, mapRetry, probe>>

\* Lines 1276-1282: a click on a refresh button; a disabled button fires no
\* click.
ClickRefresh(r) ==
    /\ ui.listeners
    /\ ~ui.refreshDisabled
    /\ StartRefresh(r)

\* Line 1349: the 8-hour timer fires.
TimerRefresh(r) == StartRefresh(r)

\* Lines 846-859.
RefreshFinally(u) == [u EXCEPT !.refreshDisabled = FALSE, !.iconSpinning = FALSE]

\* Lines 240-255 and 838-859: the vibe-score call of a refresh has settled.
RefreshSettled(r) ==
    /\ r \in RefreshIds
    /\ fetches[r].pc = "settled"
    /\ LET res == fetches[r].result
           data == Doc(res.doc)
           written == StateAfterVibeData(state, data)
           st == [written EXCEPT !.vibeScores = data]
       IN  IF res.kind = "throw"
           THEN /\ ui' = RefreshFinally(ui)
                /\ UNCHANGED <<state, map>>
           ELSE IF ~VibeLoads(data)
           THEN /\ state' = written
                /\ ui' = RefreshFinally(ui)
                /\ UNCHANGED map
           ELSE /\ state' = st
                /\ map' = MapAfterUpdateColors(st, map)
                /\ ui' = RefreshFinally(
                            IF PulseThrows(st)
                            THEN updateStats(st, UiAfterUpdateColors(st, map, ui))
                            ELSE UiAfterRefresh(st, map, ui))
    /\ fetches' = [fetches EXCEPT ![r] = Consumed(@)]
    /\ UNCHANGED <<config, lastStarted, pc, container, retryCount, mapRetry, probe>>

\* The documents the data server holds in SpecRefresh: one metadata, one grid,
\* the vibe scores A at the initial load and, at a refresh, the vibe scores A,
\* the vibe scores B (no pulse, no insights) or a document without cells.
RefreshDocs(c) ==
    CASE c = "metadata" -> {1}
      [] c = "grid" -> {4}
      [] c = "vibe" -> {7}
      [] OTHER -> {7, 8, 9}

RefreshResponses(c) == {<<<<JsonText(d)>>, "done">> : d \in RefreshDocs(c)}

InitRefresh ==
    /\ hostname = "localhost"
    /\ useGzip = TRUE
    /\ fetches = [c \in FetchIds |-> IdleFetch]
    /\ state = InitialState
    /\ ui = InitialUi
    /\ map = InitialMap
    /\ pc = "start"
    /\ container = "sized"
    /\ retryCount = 0
    /\ mapRetry = FALSE
    /\ probe = NoProbe
    /\ lastStarted = "none"

NextRefresh ==
    \/ Initialize
    \/ MapRetryTimer
    \/ MapLoad
    \/ MetadataSettled
    \/ GridSettled
    \/ VibeSettled
    \/ \E r \in RefreshIds :
          \/ ClickRefresh(r)
          \/ TimerRefresh(r)
          \/ RefreshSettled(r)
    \/ \E c \in LoadIds \cup RefreshIds :
          \/ FetchResponds(c, RefreshResponses(c))
          \/ FallbackResponds(c, RefreshResponses(c))
          \/ FirstRead(c)
          \/ Push(c)
          \/ JsonSettles(c)

SpecRefresh == InitRefresh /\ [][NextRefresh]_vars

\* ===================================================================== claims

\* C1: with useGzip the first request is <url>.gz; the plain <url> is requested,
\* once and with the same options, if and only if that response is not OK; the
\* call then returns the fallback's parsed JSON when the fallback is OK and
\* throws HTTP <fallback status> when it is not. An OK first response is
\* followed by no request, and without useGzip a response that is not OK throws
\* HTTP <status> with no fallback.
C1_GzipFallback ==
    \A c \in FetchIds :
        LET f == fetches[c]
        IN  f.pc \notin {"idle", "consumed"} =>
            /\ Len(f.reqs) \in {1, 2}
            /\ f.reqs[1] = [base |-> f.url.base, path |-> f.url.path, gz |-> useGzip,
                            options |-> f.options]
            /\ (Len(f.reqs) = 2) <=> (useGzip /\ f.response.arrived /\ ~f.response.ok)
            /\ Len(f.reqs) = 2 =>
                   f.reqs[2] = [base |-> f.url.base, path |-> f.url.path, gz |-> FALSE,
                                options |-> f.options]
            /\ f.fallbackResponse.arrived =>
                   /\ Len(f.reqs) = 2
                   /\ f.pc = "settled"
                   /\ ~f.fallbackResponse.ok =>
                          f.result = Thrown("HTTP", f.fallbackResponse.status)
                   /\ (f.fallbackResponse.ok /\ f.fallbackResponse.ending = "done") =>
                          f.result = ParseJson(Flatten(f.fallbackResponse.body))
            /\ (~useGzip /\ f.response.arrived /\ ~f.response.ok) =>
                   /\ f.pc = "settled"
                   /\ f.result = Thrown("HTTP", f.response.status)

\* C1 witness: a call whose .gz request failed has returned the document of
\* its fallback response.
C1_Witness ==
    \E c \in FetchIds :
        /\ useGzip /\ Len(fetches[c].reqs) = 2
        /\ fetches[c].fallbackResponse.ok
        /\ fetches[c].result.kind = "return"

StartsWithMagic(b) == Len(b) >= 2 /\ b[1] = GzipMagic0 /\ b[2] = GzipMagic1

\* C2: the body of an OK response is piped through gzip decompression if and
\* only if the first two bytes of the body are 0x1f 0x8b, however the reader
\* divides the body into chunks.
C2_MagicDecidesPipe ==
    \A c \in FetchIds :
        (fetches[c].piped /= "none" /\ fetches[c].pc /= "consumed") =>
            ((fetches[c].piped = "gzip") <=> StartsWithMagic(Flatten(fetches[c].orig)))

\* C3: the rebuilt stream holds a prefix of the chunks of the body, in their
\* order and each once, starting with the peeked chunk; close() is called at
\* most once, only once the reader has reported done and every chunk has been
\* enqueued (so none is enqueued after it), and it is called when the reader
\* reports done on a stream that was not cancelled.
C3_StreamRebuilt ==
    \A c \in FetchIds :
        LET f == fetches[c]
        IN  (f.stream /= "none" /\ f.pc /= "consumed") =>
            /\ Len(f.delivered) >= 1
            /\ IsPrefix(f.delivered, f.orig)
            /\ f.stream /= "cancelled" => f.delivered \o f.src = f.orig
            /\ f.closeCalls <= 1
            /\ (f.stream = "closed") <=> (f.closeCalls = 1)
            /\ f.stream = "closed" => (f.srcDone /\ f.delivered = f.orig)
            /\ (f.srcDone /\ f.stream /= "cancelled") => f.stream = "closed"

\* C3 witness: a body of three chunks has been passed on whole and the stream
\* is closed.
C3_Witness ==
    \E c \in FetchIds :
        /\ fetches[c].stream = "closed"
        /\ Len(fetches[c].orig) = 3
        /\ fetches[c].delivered = fetches[c].orig

\* A load has a request, or the rest of a response body, outstanding.
InFlight(c) ==
    \/ fetches[c].pc \in {"awaitFetch", "awaitFallback", "awaitFirstRead", "awaitJson"}
    \/ fetches[c].pump = "reading"

Resolved(c) == fetches[c].pc = "consumed" /\ fetches[c].result.kind = "return"

\* C4: loadAllData requests the grid only after the metadata call has resolved
\* and the vibe scores only after the grid call has resolved; at most one of
\* its requests is in flight at any time; once a load has failed, no later load
\* is requested.
C4_SequentialLoads ==
    /\ Cardinality({c \in LoadIds : InFlight(c)}) <= 1
    /\ fetches["grid"].pc /= "idle" => Resolved("metadata")
    /\ fetches["vibe"].pc /= "idle" => (Resolved("metadata") /\ Resolved("grid"))
    /\ \A c \in LoadIds : Len(fetches[c].reqs) <= 2
    /\ (pc = "failed" /\ ui.errorDetails = MetadataError) =>
          (fetches["grid"].pc = "idle" /\ fetches["vibe"].pc = "idle")
    /\ (pc = "failed" /\ ui.errorDetails = GridError) => fetches["vibe"].pc = "idle"

\* C4 witness: all three loads have resolved, one after the other.
C4_Witness == \A c \in LoadIds : Resolved(c)

MapErrors ==
    {"Map container not found", "Map container still has invalid dimensions after waiting",
     "Map initialization failed"}

\* C5: when initialize has failed in the map initialization or in the load of
\* the metadata, the grid or the vibe scores, the error screen is shown, the
\* loading screen is hidden, and the map has neither the h3-grid source nor
\* any of the vibe layers; initialize has ended in its catch block.
C5_FailedInitShowsError ==
    (pc = "failed" /\ ui.errorDetails \in MapErrors \cup {MetadataError, GridError, VibeError}) =>
        /\ ui.errorShown
        /\ ui.loadingHidden
        /\ ui.errorMessage = InitFailedMessage
        /\ "h3-grid" \notin map.sources
        /\ map.layers \cap {"vibe-fill", "vibe-outline", "vibe-hover"} = {}

\* C5 witness: the load of the vibe scores failed after the grid was loaded.
C5_Witness ==
    pc = "failed" /\ ui.errorDetails = VibeError /\ ~IsNull(state.coreGrid)

\* The value C6 states for a cell in a view mode, in two-hundredths.
ClaimedValue(cell, mode) ==
    IF mode = "progress" THEN (IF 2 * cell.p_int < 200 THEN 2 * cell.p_int ELSE 200)
    ELSE IF mode = "noise" THEN (IF 2 * cell.n_int < 200 THEN 2 * cell.n_int ELSE 200)
    ELSE cell.vibe + 100

InClaimedRange(cell) ==
    cell.vibe \in -100 .. 100 /\ cell.p_int >= 0 /\ cell.n_int >= 0

\* C6: getVisualizationValue returns 0 for a cell id without vibe data,
\* min(1, p_int / 10) in progress mode, min(1, n_int / 10) in noise mode and
\* (vibe + 1) / 2 in balanced and in any other mode; the lookup of the fill
\* colour holds these values for every cell; the value lies in [0, 1] when vibe
\* is in [-1, 1] and p_int and n_int are not negative.
C6_VisualizationValue ==
    /\ probe.fn = "getVisualizationValue" =>
          LET cells == state.vibeScores.cells
          IN  IF probe.arg \notin DOMAIN cells THEN probe.value = 0
              ELSE /\ probe.value = ClaimedValue(cells[probe.arg], probe.mode)
                   /\ InClaimedRange(cells[probe.arg]) => probe.value \in 0 .. 200
    /\ (map.fill.set /\ ~IsNull(state.vibeScores)) =>
          LET cells == state.vibeScores.cells
          IN  /\ DOMAIN map.fill.lookup = DOMAIN cells
              /\ \A h \in DOMAIN cells :
                    /\ map.fill.lookup[h] = ClaimedValue(cells[h], state.currentViewMode)
                    /\ InClaimedRange(cells[h]) => map.fill.lookup[h] \in 0 .. 200

\* C6 witness: in progress mode a cell with p_int 25.0 was given the value 1.
C6_Witness ==
    /\ probe.fn = "getVisualizationValue"
    /\ probe.mode = "progress"
    /\ probe.arg \in DOMAIN state.vibeScores.cells
    /\ state.vibeScores.cells[probe.arg].p_int = 250
    /\ probe.value = 200

LabelColours ==
    {<<"Crisis", "#ef4444">>, <<"Tense", "#f97316">>, <<"Neutral", "#eab308">>,
     <<"Stable", "#84cc16">>, <<"Thriving", "#22c55e">>}

\* C7: the label and the colour shown for a vibe are one of the five pairs, the
\* buckets are split at -0.5, 0.0, 0.3 and 0.6 with each threshold in the upper
\* bucket, and a vibe inside a range the balanced legend prints has the label
\* of that range.
C7_LabelAndColour ==
    ui.tooltip.shown =>
        LET v == ui.tooltip.vibe
            l == ui.tooltip.vibeLabel
        IN  /\ <<l, ui.tooltip.vibeColor>> \in LabelColours
            /\ (l = "Crisis") <=> (v < -50)
            /\ (l = "Tense") <=> (-50 <= v /\ v < 0)
            /\ (l = "Neutral") <=> (0 <= v /\ v < 30)
            /\ (l = "Stable") <=> (30 <= v /\ v < 60)
            /\ (l = "Thriving") <=> (60 <= v)
            /\ \A i \in DOMAIN BalancedLegend :
                  (BalancedLegend[i].from <= v /\ v < BalancedLegend[i].to) =>
                      l = BalancedLegend[i].label

\* C7 witness: the tooltip of a cell whose vibe is the threshold -0.5 reads
\* Tense.
C7_Witness ==
    ui.tooltip.shown /\ ui.tooltip.vibe = -50 /\ ui.tooltip.vibeLabel = "Tense"

\* The sum of the property k over the cells, a cell without it adding nothing.
RECURSIVE FieldTotal(_, _)
FieldTotal(cells, k) ==
    IF DOMAIN cells = {} THEN 0
    ELSE LET h == CHOOSE x \in DOMAIN cells : TRUE
             rest == [x \in DOMAIN cells \ {h} |-> cells[x]]
         IN  (IF k \in DOMAIN cells[h] THEN cells[h][k] ELSE 0) + FieldTotal(rest, k)

\* C8: with the vibe scores and the grid loaded and at least one cell, the
\* stats panel shows the number of cells, the sums of count, noise_count and
\* progress_count (a missing one adding 0) and the mean of the cells' vibe,
\* printed to the nearest thousandth; with the vibe scores or the grid not
\* loaded the panel is left as it was.
C8_StatsShown ==
    /\ (~IsNull(state.vibeScores) /\ ~IsNull(state.coreGrid)
        /\ DOMAIN state.vibeScores.cells /= {}) =>
          LET cells == state.vibeScores.cells
              n == Cardinality(DOMAIN cells)
              d == ui.stats.avgVibe * n - 10 * FieldTotal(cells, "vibe")
          IN  /\ ui.stats.set
              /\ ui.stats.regions = n
              /\ ui.stats.events = FieldTotal(cells, "count")
              /\ ui.stats.noise = FieldTotal(cells, "noise_count")
              /\ ui.stats.progress = FieldTotal(cells, "progress_count")
              /\ ~ui.stats.avgNaN
              /\ 2 * d <= n /\ -2 * d <= n
    /\ (IsNull(state.vibeScores) \/ IsNull(state.coreGrid)) => ui.stats = NoStats

\* C8 witness: updateStats has run over three cells, one of them with its
\* counts and one without, whose mean is not a whole number of thousandths.
C8_Witness ==
    /\ probe.fn = "updateStats"
    /\ ~IsNull(state.vibeScores) /\ ~IsNull(state.coreGrid)
    /\ ui.stats.regions = 3
    /\ \E h \in DOMAIN state.vibeScores.cells : "count" \notin DOMAIN state.vibeScores.cells[h]
    /\ \E h \in DOMAIN state.vibeScores.cells : "count" \in DOMAIN state.vibeScores.cells[h]
    /\ ui.stats.avgVibe * 3 /= 10 * FieldTotal(state.vibeScores.cells, "vibe")

\* C9: the grid loadCoreGrid returns has the features of the fetched grid in
\* their order, each with properties.h3_index equal to its id and with every
\* other property and field as fetched; the rest of the grid is unchanged.
C9_GridKeepsFeatures ==
    (~IsNull(state.coreGrid) /\ fetches["grid"].result.kind = "return") =>
        LET fetched == Doc(fetches["grid"].result.doc)
            loaded == state.coreGrid
        IN  /\ DOMAIN loaded = DOMAIN fetched
            /\ \A k \in DOMAIN fetched \ {"features"} : loaded[k] = fetched[k]
            /\ Len(loaded.features) = Len(fetched.features)
            /\ \A i \in 1 .. Len(fetched.features) :
                  LET was == fetched.features[i]
                      now == loaded.features[i]
                      wasProps == IF "properties" \in DOMAIN was THEN was.properties ELSE <<>>
                  IN  /\ DOMAIN now = DOMAIN was \cup {"properties"}
                      /\ \A k \in DOMAIN was \ {"properties"} : now[k] = was[k]
                      /\ now.properties.h3_index = was.id
                      /\ DOMAIN now.properties = DOMAIN wasProps \cup {"h3_index"}
                      /\ \A k \in DOMAIN wasProps \ {"h3_index"} :
                            now.properties[k] = wasProps[k]

\* C9 witness: a loaded grid whose second feature came with an h3_index of its
\* own.
C9_Witness ==
    /\ ~IsNull(state.coreGrid)
    /\ fetches["grid"].result.kind = "return"
    /\ Len(state.coreGrid.features) = 2
    /\ "h3_index" \in DOMAIN Doc(fetches["grid"].result.doc).features[2].properties
    /\ state.coreGrid.features[2].properties.h3_index = "h2"

\* C10: every request of the three loads goes to /data when the hostname is
\* localhost or 127.0.0.1 and to the jsDelivr URL of the repository otherwise.
C10_DataBaseUrl ==
    \A c \in LoadIds : \A i \in 1 .. Len(fetches[c].reqs) :
        fetches[c].reqs[i].base =
            IF hostname \in {"localhost", "127.0.0.1"} THEN "/data"
            ELSE "https://cdn.jsdelivr.net/gh/sriramsme/AtlasInContext@main/data"

\* C10 witness: on 127.0.0.1 the grid file named core/core_grid.json has been
\* requested as /data/core_grid.json.gz and then as /data/core_grid.json.
C10_Witness ==
    /\ hostname = "127.0.0.1"
    /\ Len(fetches["grid"].reqs) = 2
    /\ fetches["grid"].reqs[2].base = "/data"
    /\ fetches["grid"].reqs[2].path = <<"core_grid.json">>
    /\ state.metadata = Doc(1)

\* C11: a call of fetchWithDecompress that has been made eventually settles,
\* whether the body of its response ends or a read of it fails.
C11_EventuallySettles ==
    (fetches["probe"].pc /= "idle") ~> (fetches["probe"].pc = "settled")

\* A call of refreshVibeScores is between its first line and its finally block.
RefreshInFlight(r) == fetches[r].pc \notin {"idle", "consumed"}

\* C12: the refresh buttons are disabled and the refresh icons spin exactly
\* while a call of refreshVibeScores is in flight.
C12_ButtonsFollowRefresh ==
    /\ (\E r \in RefreshIds : RefreshInFlight(r)) <=> ui.refreshDisabled
    /\ ui.refreshDisabled <=> ui.iconSpinning

VibeLoadIds == {"vibe"} \cup RefreshIds

\* C13: once every call of loadVibeScores has completed, and the one started
\* last has returned a payload with cells, state.vibeScores, state.pulse and
\* state.insights hold the data of that payload.
C13_LastStartedWins ==
    (/\ lastStarted /= "none"
     /\ \A c \in VibeLoadIds : fetches[c].pc \in {"idle", "consumed"}
     /\ fetches[lastStarted].result.kind = "return"
     /\ VibeLoads(Doc(fetches[lastStarted].result.doc))) =>
        LET data == Doc(fetches[lastStarted].result.doc)
        IN  /\ state.vibeScores = data
            /\ state.pulse = (IF "pulse" \in DOMAIN data THEN data.pulse ELSE Null)
            /\ state.insights = data.insights

\* The step in which refresh r, its loadVibeScores having failed (a failed
\* request, an unparsable body or a payload without cells), runs to its end.
FailedRefreshEnds(r) ==
    /\ fetches[r].pc = "settled"
    /\ fetches'[r].pc = "consumed"
    /\ \/ fetches[r].result.kind = "throw"
       \/ ~VibeLoads(Doc(fetches[r].result.doc))

\* C14: a refresh whose loadVibeScores failed leaves state.vibeScores,
\* state.pulse and state.insights as they were and does not show the error
\* screen.
C14_FailedRefreshKeepsState ==
    [][\A r \in RefreshIds :
          FailedRefreshEnds(r) =>
              /\ state'.vibeScores = state.vibeScores
              /\ state'.pulse = state.pulse
              /\ state'.insights = state.insights
              /\ ui'.errorShown = ui.errorShown]_vars

\* C15: once initialize has completed successfully, the highlighted view
\* button, the legend and the colour scheme of the vibe-fill layer are those
\* of state.currentViewMode.
C15_ViewFollowsMode ==
    pc = "ready" =>
        /\ ui.activeButton = state.currentViewMode
        /\ ui.legend = state.currentViewMode
        /\ map.fill.set /\ map.fill.mode = state.currentViewMode

\* The step in which refresh r, its loadVibeScores having returned a payload
\* with cells, runs to its end.
SuccessfulRefreshEnds(r) ==
    /\ fetches[r].pc = "settled"
    /\ fetches'[r].pc = "consumed"
    /\ fetches[r].result.kind = "return"
    /\ VibeLoads(Doc(fetches[r].result.doc))

\* C16: after a successful refresh the pulse ticker shows the pulse of the new
\* payload, or no pulse when the payload has none, and the insights list shows
\* the insights of the new payload, or none when it has none.
C16_PanelsShowNewPayload ==
    [][\A r \in RefreshIds :
          SuccessfulRefreshEnds(r) =>
              LET data == Doc(fetches[r].result.doc)
              IN  /\ IF "pulse" \in DOMAIN data
                     THEN /\ ui'.pulse.set
                          /\ ui'.pulse.progress = data.pulse.progress_signal
                          /\ ui'.pulse.noise = data.pulse.noise_signal
                          /\ ui'.pulse.ratio = data.pulse.humanity_ratio
                     ELSE ~ui'.pulse.set
                  /\ ui'.insights = data.insights.items]_vars

\* C17: whenever a failed initialization has shown the error screen, the click
\* handler of the Retry button is registered.
C17_RetryRegistered ==
    (pc = "failed" /\ ui.errorShown) => ui.listeners

\* C18: initializeMap ends: it waits for the size of the container at most 20
\* times (in its wait number retryCount + 1) and then proceeds or throws the invalid-dimensions error; it retries
\* after a failed constructor at most once per page, only when window._mapRetry
\* was not set and the message holds 'null' or 'property 0', so the constructor
\* is called at most twice; any other failure of the constructor is thrown on
\* as Map initialization failed.
C18_MapInitTerminates ==
    /\ [](/\ retryCount <= 20
          /\ pc = "mapWait" => retryCount + 1 <= 20
          /\ map.attempts <= 2
          /\ map.attempts = 2 => mapRetry
          /\ pc = "mapRetryWait" =>
                (mapRetry /\ map.attempts = 1 /\ map.lastError \in {"null", "property 0"})
          /\ (pc = "failed" /\ map.lastError /= "none") =>
                /\ ui.errorDetails = "Map initialization failed"
                /\ map.lastError = "other" \/ map.attempts = 2
          /\ (pc = "failed" /\ map.attempts = 0) =>
                ui.errorDetails \in {"Map container not found",
                                     "Map container still has invalid dimensions after waiting"})
    /\ (pc = "start") ~> (pc \in {"awaitMapLoad", "failed"})

\* C18 witness: the constructor failed, was retried once and failed again
\* with a message holding 'null'.
C18_Witness ==
    /\ pc = "failed"
    /\ map.attempts = 2
    /\ map.lastError = "null"
    /\ ui.errorDetails = "Map initialization failed"

====
